---- MODULE Spec2Model ----
(***************************************************************************)
(* Model of the Exa tools of the Dify plugin: the four tool handlers       *)
(* (search, similar, answer, contents), the URL-list parser of the         *)
(* contents tool and the provider's credential validation.                 *)
(*                                                                         *)
(* Python values are tagged records: [t |-> "None"], [t |-> "bool", v],    *)
(* [t |-> "int", v], [t |-> "str", v] (v a sequence of characters),        *)
(* [t |-> "list", v] (v a sequence of values), [t |-> "dict", v] (v a      *)
(* function from key names to values).  A character is a one-element       *)
(* token; the two full-width punctuation marks are the tokens FullComma    *)
(* and FullSemi.                                                           *)
(***************************************************************************)
EXTENDS Integers, Sequences, FiniteSets, TLC

\* ------------------------------------------------------------------ values

None == [t |-> "None"]
PyStr(s) == [t |-> "str", v |-> s]
PyBool(b) == [t |-> "bool", v |-> b]
PyInt(n) == [t |-> "int", v |-> n]
PyList(l) == [t |-> "list", v |-> l]
PyDict(d) == [t |-> "dict", v |-> d]
EmptyDict == [k \in {} |-> None]

\* Python truthiness: `if x`, `not x`
Truthy(x) ==
    CASE x.t = "None" -> FALSE
      [] x.t = "bool" -> x.v
      [] x.t = "int"  -> x.v # 0
      [] x.t = "str"  -> Len(x.v) > 0
      [] x.t = "list" -> Len(x.v) > 0
      [] x.t = "dict" -> DOMAIN x.v # {}
      [] x.t = "map"  -> Len(x.v) > 0

\* dict.get(key, default)
Get(d, key, default) == IF key \in DOMAIN d THEN d[key] ELSE default

Range(s) == {s[i] : i \in DOMAIN s}

\* ------------------------------------------------------------- characters

FullComma == "U+FF0C"
FullSemi == "U+FF1B"
\* what Python's str.strip() and the regex class \s take for whitespace
Whitespace == {" ", "\n"}
Http == <<"h", "t", "t", "p", ":", "/", "/">>
Https == <<"h", "t", "t", "p", "s", ":", "/", "/">>

\* s.startswith(p)
StartsWith(s, p) == Len(s) >= Len(p) /\ SubSeq(s, 1, Len(p)) = p
\* s.endswith(p)
EndsWith(s, p) == Len(s) >= Len(p) /\ SubSeq(s, Len(s) - Len(p) + 1, Len(s)) = p

RECURSIVE LStrip(_, _)
LStrip(s, cs) == IF s # <<>> /\ Head(s) \in cs THEN LStrip(Tail(s), cs) ELSE s
RECURSIVE RStrip(_, _)
RStrip(s, cs) ==
    IF s # <<>> /\ s[Len(s)] \in cs THEN RStrip(SubSeq(s, 1, Len(s) - 1), cs) ELSE s
\* s.strip(cs); s.strip() is Strip(s, Whitespace)
Strip(s, cs) == RStrip(LStrip(s, cs), cs)

\* re.split(r'[<seps>]+', s): the pieces between maximal runs of separator
\* characters; a leading or trailing run leaves an empty piece.
RECURSIVE ReSplitFrom(_, _, _, _, _)
ReSplitFrom(s, i, seps, cur, inRun) ==
    IF i > Len(s) THEN <<cur>>
    ELSE IF s[i] \in seps
         THEN IF inRun THEN ReSplitFrom(s, i + 1, seps, cur, TRUE)
              ELSE <<cur>> \o ReSplitFrom(s, i + 1, seps, <<>>, TRUE)
         ELSE ReSplitFrom(s, i + 1, seps, Append(cur, s[i]), FALSE)
ReSplit(s, seps) == ReSplitFrom(s, 1, seps, <<>>, FALSE)

\* s.split(c) for a one-character separator: every occurrence splits
RECURSIVE SplitFrom(_, _, _, _)
SplitFrom(s, i, c, cur) ==
    IF i > Len(s) THEN <<cur>>
    ELSE IF s[i] = c THEN <<cur>> \o SplitFrom(s, i + 1, c, <<>>)
         ELSE SplitFrom(s, i + 1, c, Append(cur, s[i]))
Split(s, c) == SplitFrom(s, 1, c, <<>>)

\* --------------------------------------------- contents: _parse_urls_string

\* the character class of the split: [,<full-width comma>\s;]
UrlSeparators == {",", FullComma, ";"} \cup Whitespace
\* url.strip(' \'"')
QuoteChars == {" ", "'", "\""}

\* lines 185-189: strip, then drop one leading '[' and one trailing ']'
CleanedString(urls_string) ==
    LET s0 == Strip(urls_string, Whitespace)
        s1 == IF StartsWith(s0, <<"[">>) THEN Tail(s0) ELSE s0
    IN  IF EndsWith(s1, <<"]">>) THEN SubSeq(s1, 1, Len(s1) - 1) ELSE s1

\* the test for https:// alone
EnsureSchemeHttpsOnly(url) == IF StartsWith(url, Https) THEN url ELSE Https \o url

\* lines 201-202: prepend https:// unless the entry starts with a scheme
EnsureScheme(url) ==
    IF StartsWith(url, Http) \/ StartsWith(url, Https) THEN url ELSE Https \o url

\* lines 196-203: the loop over the split pieces
RECURSIVE CleanUrls(_)
CleanUrls(split_urls) ==
    IF split_urls = <<>> THEN <<>>
    ELSE LET url == Strip(Head(split_urls), QuoteChars)
         IN  (IF url # <<>> THEN <<EnsureScheme(url)>> ELSE <<>>)
             \o CleanUrls(Tail(split_urls))

\* _parse_urls_string: a sequence of character sequences
ParseUrlsString(urls_string) ==
    CleanUrls(ReSplit(CleanedString(urls_string), UrlSeparators))

\* --------------------------------------------------------------- exceptions

NoResponse == [present |-> FALSE]
HttpResponse(status_code, text) ==
    [present |-> TRUE, status_code |-> status_code, text |-> text]
\* a raised exception: its class, str(e), and e.response (RequestException only)
Exc(cls, msg) == [cls |-> cls, msg |-> msg, response |-> NoResponse]
NoExc == Exc("none", "")
\* the classes of requests.RequestException that the model raises
RequestExceptions == {"ConnectionError", "Timeout", "HTTPError", "JSONDecodeError"}

\* ----------------------------------------------- contents: json.loads(urls)

JsonWs == {" ", "\n"}
Digits == {"0", "1", "2", "3", "4", "5", "6", "7", "8", "9"}
DigitChars == <<"0", "1", "2", "3", "4", "5", "6", "7", "8", "9">>
DigitVal(c) == CHOOSE n \in 0..9 : DigitChars[n + 1] = c
JsonFail == [ok |-> FALSE, v |-> <<>>]

\* The elements of a JSON array of strings and numbers, between its brackets.
\* st: "first" (a value or the end), "value" (a value), "str", "num",
\* "after" (a comma or the end).
RECURSIVE JsonElems(_, _, _, _, _)
JsonElems(s, i, st, cur, out) ==
    IF i > Len(s)
    THEN CASE st \in {"first", "after"} -> [ok |-> TRUE, v |-> out]
           [] st = "num" -> [ok |-> TRUE, v |-> Append(out, PyInt(cur))]
           [] OTHER -> JsonFail
    ELSE LET c == s[i] IN
         CASE st \in {"first", "value"} ->
                IF c \in JsonWs THEN JsonElems(s, i + 1, st, cur, out)
                ELSE IF c = "\"" THEN JsonElems(s, i + 1, "str", <<>>, out)
                ELSE IF c \in Digits THEN JsonElems(s, i + 1, "num", DigitVal(c), out)
                ELSE JsonFail
           [] st = "str" ->
                IF c = "\"" THEN JsonElems(s, i + 1, "after", <<>>, Append(out, PyStr(cur)))
                ELSE JsonElems(s, i + 1, "str", Append(cur, c), out)
           [] st = "num" ->
                IF c \in Digits THEN JsonElems(s, i + 1, "num", cur * 10 + DigitVal(c), out)
                ELSE IF c \in JsonWs
                     THEN JsonElems(s, i + 1, "after", <<>>, Append(out, PyInt(cur)))
                ELSE IF c = ","
                     THEN JsonElems(s, i + 1, "value", <<>>, Append(out, PyInt(cur)))
                ELSE JsonFail
           [] st = "after" ->
                IF c \in JsonWs THEN JsonElems(s, i + 1, "after", cur, out)
                ELSE IF c = "," THEN JsonElems(s, i + 1, "value", cur, out)
                ELSE JsonFail

\* json.loads of a string whose strip() starts with '[' and ends with ']':
\* [ok |-> FALSE] stands for json.JSONDecodeError
JsonLoadsArray(urls_param) ==
    LET s == Strip(urls_param, JsonWs)
    IN  IF Len(s) < 2 THEN JsonFail
        ELSE JsonElems(SubSeq(s, 2, Len(s) - 1), 1, "first", <<>>, <<>>)

\* str(n) for a non-negative int
RECURSIVE IntStr(_)
IntStr(n) ==
    LET d == DigitChars[(n % 10) + 1]
    IN  IF n < 10 THEN <<d>> ELSE Append(IntStr(n \div 10), d)

\* ------------------------------------------- contents: the urls of _invoke

Raise(cls, msg) == [exc |-> Exc(cls, msg), urls |-> <<>>]
Urls(l) == [exc |-> NoExc, urls |-> l]

\* lines 59-77: the list of entries by the form of the input
UrlsByForm(urls_param) ==
    CASE urls_param.t = "list" -> urls_param.v
      [] urls_param.t = "str" ->
           LET stripped == Strip(urls_param.v, Whitespace)
               parsed == [i \in DOMAIN ParseUrlsString(urls_param.v) |->
                            PyStr(ParseUrlsString(urls_param.v)[i])]
           IN  IF StartsWith(stripped, <<"[">>) /\ EndsWith(stripped, <<"]">>)
               THEN IF JsonLoadsArray(urls_param.v).ok
                    THEN JsonLoadsArray(urls_param.v).v
                    ELSE parsed
               ELSE parsed
      [] urls_param.t = "int" -> <<PyStr(IntStr(urls_param.v))>>
      [] OTHER -> <<PyStr(<<"T", "r", "u", "e">>)>>

\* line 84: [url for url in urls if url.strip()]
SelectStripped(urls) == SelectSeq(urls, LAMBDA u : Strip(u.v, Whitespace) # <<>>)

\* lines 48-86: the urls of the request, or the exception raised on the way
NormalizeUrls(tool_parameters) ==
    LET urls_param == Get(tool_parameters, "urls", PyStr(<<>>))
        urls == UrlsByForm(urls_param)
    IN  IF ~Truthy(urls_param) THEN Raise("ValueError", "URLs parameter is required")
        ELSE IF urls = <<>> THEN Raise("ValueError", "No valid URLs provided")
        ELSE IF \E i \in DOMAIN urls : urls[i].t # "str"
             THEN Raise("AttributeError", "object has no attribute 'strip'")
        ELSE IF SelectStripped(urls) = <<>>
             THEN Raise("ValueError", "No valid URLs after filtering")
        ELSE Urls(SelectStripped(urls))

\* ------------------------------------------------------ request building

\* d[k] = v
Put(d, k, v) == [x \in DOMAIN d \cup {k} |-> IF x = k THEN v ELSE d[x]]
\* {k: v for k, v in d.items() if v is not None}
DropNone(d) == [k \in {x \in DOMAIN d : d[x] # None} |-> d[k]]
\* payload[k] = v when cond holds
PutIf(cond, d, k, v) == IF cond THEN Put(d, k, v) ELSE d

RECURSIVE StrInt(_)
StrInt(s) == IF s = <<>> THEN 0 ELSE StrInt(SubSeq(s, 1, Len(s) - 1)) * 10 + DigitVal(s[Len(s)])

\* int(x): the value, or the exception class int() raises
IntOf(x) ==
    CASE x.t = "int" -> [ok |-> TRUE, v |-> x.v, cls |-> "none"]
      [] x.t = "bool" -> [ok |-> TRUE, v |-> IF x.v THEN 1 ELSE 0, cls |-> "none"]
      [] x.t = "str" ->
           LET s == Strip(x.v, Whitespace)
           IN  IF s # <<>> /\ \A i \in DOMAIN s : s[i] \in Digits
               THEN [ok |-> TRUE, v |-> StrInt(s), cls |-> "none"]
               ELSE [ok |-> FALSE, v |-> 0, cls |-> "ValueError"]
      [] OTHER -> [ok |-> FALSE, v |-> 0, cls |-> "TypeError"]

\* [d.strip() for d in domains.split(",")] if domains else []
DomainList(domains) ==
    IF ~Truthy(domains) THEN <<>>
    ELSE [i \in DOMAIN Split(domains.v, ",") |->
            PyStr(Strip(Split(domains.v, ",")[i], Whitespace))]

\* `if not query:`, `if not url:`, `if not urls_param:`
RequiredMissingEmptyOnly(value) == value = PyStr(<<>>)
RequiredMissing(value) == ~Truthy(value)

ApiKeyName == "exa_api_key"
BearerPrefix == <<"B", "e", "a", "r", "e", "r", " ">>
JsonContentType == "application/json"
\* {"Authorization": f"Bearer {api_key}", "Content-Type": "application/json"}
BearerHeaders(api_key) ==
    [h \in {"Authorization", "Content-Type"} |->
        IF h = "Authorization" THEN PyStr(BearerPrefix \o api_key.v)
        ELSE PyStr(<<JsonContentType>>)]
\* both styles of credential header at once
BothHeaders(api_key) ==
    [h \in {"Authorization", "x-api-key", "Content-Type"} |->
        CASE h = "Authorization" -> PyStr(BearerPrefix \o api_key.v)
          [] h = "x-api-key" -> api_key
          [] OTHER -> PyStr(<<JsonContentType>>)]
\* {"x-api-key": api_key, "Content-Type": "application/json"}
ApiKeyHeaders(api_key) ==
    [h \in {"x-api-key", "Content-Type"} |->
        IF h = "x-api-key" THEN api_key ELSE PyStr(<<JsonContentType>>)]

\* the outcome of the code before requests.post: the request, or the exception
Request(url, payload, headers) ==
    [exc |-> NoExc, url |-> url, payload |-> payload, headers |-> headers]
NoRequest(exc) ==
    [exc |-> exc, url |-> "", payload |-> EmptyDict, headers |-> EmptyDict]
MissingKey == NoRequest(Exc("KeyError", "'exa_api_key'"))

DefaultNumResults == 10
MaxNumResults == 100

\* exa_search.py lines 37-101
SearchRequest(credentials, tool_parameters) ==
    LET p == tool_parameters
        query == Get(p, "query", None)
        search_type == Get(p, "search_type", PyStr(<<"neural">>))
        num_results == IntOf(Get(p, "num_results", PyInt(DefaultNumResults)))
        include_domains == Get(p, "include_domains", PyStr(<<>>))
        exclude_domains == Get(p, "exclude_domains", PyStr(<<>>))
        start_published_date == Get(p, "start_published_date", PyStr(<<>>))
        end_published_date == Get(p, "end_published_date", PyStr(<<>>))
        use_autoprompt == Get(p, "use_autoprompt", PyBool(TRUE))
        text_contents == Get(p, "text_contents", PyBool(TRUE))
        highlight_results == Get(p, "highlight_results", PyBool(FALSE))
        category == Get(p, "category", None)
        include_text == Get(p, "includeText", None)
        exclude_text == Get(p, "excludeText", None)
        include_domains_list == DomainList(include_domains)
        exclude_domains_list == DomainList(exclude_domains)
        OrNone(cond, v) == IF cond THEN v ELSE None
        full ==
            [k \in {"query", "numResults", "useAutoprompt", "type", "includeDomains",
                    "excludeDomains", "startPublishedDate", "endPublishedDate",
                    "category", "includeText", "excludeText"} |->
                CASE k = "query" -> query
                  [] k = "numResults" -> PyInt(num_results.v)
                  [] k = "useAutoprompt" -> use_autoprompt
                  [] k = "type" -> OrNone(search_type # PyStr(<<"auto">>), search_type)
                  [] k = "includeDomains" ->
                       OrNone(include_domains_list # <<>>, PyList(include_domains_list))
                  [] k = "excludeDomains" ->
                       OrNone(exclude_domains_list # <<>>, PyList(exclude_domains_list))
                  [] k = "startPublishedDate" ->
                       OrNone(Truthy(start_published_date), start_published_date)
                  [] k = "endPublishedDate" ->
                       OrNone(Truthy(end_published_date), end_published_date)
                  [] k = "category" -> category
                  [] k = "includeText" -> OrNone(Truthy(include_text), PyList(<<include_text>>))
                  [] k = "excludeText" -> OrNone(Truthy(exclude_text), PyList(<<exclude_text>>))]
        contents_options ==
            PutIf(Truthy(highlight_results),
                  PutIf(Truthy(text_contents), EmptyDict, "text", PyBool(TRUE)),
                  "highlights", PyBool(TRUE))
        payload ==
            PutIf(contents_options # EmptyDict, DropNone(full),
                  "contents", PyDict(contents_options))
    IN  IF ApiKeyName \notin DOMAIN credentials THEN MissingKey
        ELSE IF RequiredMissing(query)
             THEN NoRequest(Exc("ValueError", "Search query is required"))
        ELSE IF ~num_results.ok THEN NoRequest(Exc(num_results.cls, "int()"))
        ELSE IF \E d \in {include_domains, exclude_domains} : Truthy(d) /\ d.t # "str"
             THEN NoRequest(Exc("AttributeError", "object has no attribute 'split'"))
        ELSE Request("https://api.exa.ai/search", payload,
                     BearerHeaders(credentials[ApiKeyName]))

\* the result count sent as it was given
LimitNumResultsNever(num_results) == num_results
\* exa_similar.py lines 34-35: if num_results > 100: num_results = 100
LimitNumResults(num_results) ==
    IF num_results > MaxNumResults THEN MaxNumResults ELSE num_results

\* exa_similar.py lines 25-62
SimilarRequest(credentials, tool_parameters) ==
    LET p == tool_parameters
        url == Get(p, "url", None)
        given == IntOf(Get(p, "num_results", PyInt(DefaultNumResults)))
        num_results == LimitNumResults(given.v)
        text == Get(p, "text", PyBool(FALSE))
        payload ==
            PutIf(Truthy(text),
                  [k \in {"url", "numResults"} |->
                      IF k = "url" THEN url ELSE PyInt(num_results)],
                  "text", PyBool(TRUE))
    IN  IF ApiKeyName \notin DOMAIN credentials THEN MissingKey
        ELSE IF RequiredMissing(url) THEN NoRequest(Exc("ValueError", "URL is required"))
        ELSE IF ~given.ok THEN NoRequest(Exc(given.cls, "int()"))
        ELSE Request("https://api.exa.ai/findSimilar", payload,
                     ApiKeyHeaders(credentials[ApiKeyName]))

\* exa_anwser.py lines 25-60
AnswerRequest(credentials, tool_parameters) ==
    LET p == tool_parameters
        query == Get(p, "query", None)
        text == Get(p, "text", PyBool(FALSE))
        model == Get(p, "model", PyStr(<<"exa">>))
        payload ==
            PutIf(model # PyStr(<<"exa">>),
                  [k \in {"query", "text"} |-> IF k = "query" THEN query ELSE text],
                  "model", model)
    IN  IF ApiKeyName \notin DOMAIN credentials THEN MissingKey
        ELSE IF RequiredMissing(query)
             THEN NoRequest(Exc("ValueError", "Query is required"))
        ELSE Request("https://api.exa.ai/answer", payload,
                     BearerHeaders(credentials[ApiKeyName]))

\* exa_contents.py lines 45-130
ContentsRequest(credentials, tool_parameters) ==
    LET p == tool_parameters
        norm == NormalizeUrls(p)
        livecrawl_strategy == Get(p, "livecrawl", PyStr(<<"auto">>))
        full_page_text == Get(p, "full_page_text", PyBool(FALSE))
        ai_page_summary == Get(p, "ai_page_summary", PyBool(FALSE))
        number_of_subpages == IntOf(Get(p, "number_of_subpages", PyInt(1)))
        return_links == IntOf(Get(p, "return_links", PyInt(1)))
        base == [k \in {"ids", "livecrawl"} |->
                    IF k = "ids" THEN PyList(norm.urls) ELSE livecrawl_strategy]
        payload ==
            PutIf(return_links.v > 0,
              PutIf(number_of_subpages.v > 0,
                PutIf(Truthy(ai_page_summary),
                  PutIf(Truthy(full_page_text), base, "text", PyBool(TRUE)),
                  "summary", PyBool(TRUE)),
                "subpages", PyInt(number_of_subpages.v)),
              "extras", PyDict([k \in {"links"} |-> PyInt(return_links.v)]))
    IN  IF ApiKeyName \notin DOMAIN credentials THEN MissingKey
        ELSE IF norm.exc # NoExc THEN NoRequest(norm.exc)
        ELSE IF ~number_of_subpages.ok THEN NoRequest(Exc(number_of_subpages.cls, "int()"))
        ELSE IF ~return_links.ok THEN NoRequest(Exc(return_links.cls, "int()"))
        ELSE Request("https://api.exa.ai/contents", payload,
                     ApiKeyHeaders(credentials[ApiKeyName]))

\* the request of a tool
BuildRequest(t, credentials, tool_parameters) ==
    CASE t = "search" -> SearchRequest(credentials, tool_parameters)
      [] t = "similar" -> SimilarRequest(credentials, tool_parameters)
      [] t = "answer" -> AnswerRequest(credentials, tool_parameters)
      [] t = "contents" -> ContentsRequest(credentials, tool_parameters)

\* ------------------------------------------------------------- formatting
\* A formatted text is a sequence of parts: Lit(s) is literal text of the
\* source, Val(x) the rendering of value x by an f-string.  Every part holds a
\* tagged value, so that any two parts compare.

Lit(s) == [k |-> "lit", v |-> PyStr(<<s>>)]
Val(x) == [k |-> "val", v |-> x]
\* f"{x:.2f}"
Val2f(x) == [k |-> "val.2f", v |-> x]

\* a formatter's outcome: the text, or the exception raised while building it
Ok(out) == [exc |-> NoExc, out |-> out]
Fail(cls, msg) == [exc |-> Exc(cls, msg), out |-> <<>>]
\* a then b, as statements in sequence: the first exception wins
Then(a, b) == IF a.exc # NoExc THEN a ELSE IF b.exc # NoExc THEN b ELSE Ok(a.out \o b.out)
When(cond, a) == IF cond THEN a ELSE Ok(<<>>)

SearchTextBudget == 500
SimilarTextBudget == 500
AnswerTextBudget == 300
ContentsTextBudget == 1000
SubpageTextBudget == 500
Ellipsis == <<".", ".", ".">>
\* the Markdown code fence, three backquotes
Fence == "<fence>"
ContentsMarker ==
    <<".", ".", ".", "\n", "(", "c", "o", "n", "t", "e", "n", "t", " ", "t",
    "r", "u", "n", "c", "a", "t", "e", "d", " ", "f", "o", "r", " ", "r",
    "e", "a", "d", "a", "b", "i", "l", "i", "t", "y", ")">>

\* len(x), defined for strings, lists and dicts
HasLen(x) == x.t \in {"str", "list", "dict", "map"}
LenOf(x) == IF x.t \in {"str", "list", "map"} THEN Len(x.v) ELSE Cardinality(DOMAIN x.v)

\* text[:budget] alone when len(text) > budget
ExcerptUnmarked(text, budget, marker) ==
    IF LenOf(text) <= budget THEN Ok(<<Val(text)>>)
    ELSE Ok(<<Val(PyStr(SubSeq(text.v, 1, budget)))>>)
\* text[:budget] + marker when len(text) > budget, for a truthy text
Excerpt(text, budget, marker) ==
    IF ~HasLen(text) THEN Fail("TypeError", "object has no len()")
    ELSE IF LenOf(text) <= budget THEN Ok(<<Val(text)>>)
    ELSE IF text.t # "str" THEN Fail("TypeError", "can only concatenate")
    ELSE Ok(<<Val(PyStr(SubSeq(text.v, 1, budget) \o marker))>>)

\* `key in d and d[key]` for a dict d
Has(d, key) == key \in DOMAIN d /\ Truthy(d[key])

\* the items a for loop takes from x: a list's elements, a string's characters
Iterable(x) == x.t \in {"str", "list"}
ItemsOf(x) == IF x.t = "list" THEN x.v ELSE [i \in DOMAIN x.v |-> PyStr(<<x.v[i]>>)]

NoGet == Fail("AttributeError", "object has no attribute 'get'")

\* f"{result['score']:.2f}": numbers only
Score2f(label, result) ==
    IF "score" \notin DOMAIN result THEN Ok(<<>>)
    ELSE IF result["score"].t \in {"int", "bool"}
         THEN Ok(<<Lit(label), Val2f(result["score"]), Lit("\n")>>)
    ELSE IF result["score"].t = "str" THEN Fail("ValueError", "Unknown format code 'f'")
    ELSE Fail("TypeError", "unsupported format string")

\* exa_search.py lines 209-213
RECURSIVE HighlightLines(_)
HighlightLines(hs) ==
    IF hs = <<>> THEN <<>>
    ELSE <<Lit("> "), Val(Head(hs)), Lit("\n")>> \o HighlightLines(Tail(hs))
Highlights(result) ==
    IF ~Has(result, "highlights") THEN Ok(<<>>)
    ELSE IF ~Iterable(result["highlights"]) THEN Fail("TypeError", "object is not iterable")
    ELSE Ok(<<Lit("**Highlights:**\n\n")>> \o HighlightLines(ItemsOf(result["highlights"]))
            \o <<Lit("\n")>>)

\* exa_search.py lines 182-225: the section of result i
SearchSection(i, item) ==
    IF item.t # "dict" THEN NoGet
    ELSE LET result == item.v
             title == Get(result, "title", PyStr(<<"No title">>))
             url == Get(result, "url", PyStr(<<>>))
             domain == Get(result, "domain", PyStr(<<"Unknown source">>))
             published_date == Get(result, "publishedDate", PyStr(<<>>))
             author == Get(result, "author", PyStr(<<>>))
             image_url == Get(result, "image", PyStr(<<>>))
         IN
         Then(Ok(<<Lit("### "), Val(PyInt(i)), Lit(". ["), Val(title), Lit("]("), Val(url),
                   Lit(")\n\n")>>),
         Then(When(Truthy(image_url),
                   Ok(<<Lit("![Image from "), Val(domain), Lit("]("), Val(image_url),
                        Lit(")\n\n")>>)),
         Then(Ok(<<Lit("**Source:** "), Val(domain), Lit("\n")>>),
         Then(When(Truthy(published_date),
                   Ok(<<Lit("**Published:** "), Val(published_date), Lit("\n")>>)),
         Then(When(Truthy(author), Ok(<<Lit("**Author:** "), Val(author), Lit("\n")>>)),
         Then(Score2f("**Relevance Score:** ", result),
         Then(Ok(<<Lit("\n")>>),
         Then(Highlights(result),
         Then(When(Has(result, "text"),
                   Then(Ok(<<Lit("**Content Excerpt:**\n\n"), Lit(Fence), Lit("\n")>>),
                   Then(Excerpt(Get(result, "text", None), SearchTextBudget, Ellipsis),
                        Ok(<<Lit("\n"), Lit(Fence), Lit("\n\n")>>)))),
              Ok(<<Lit("---\n\n")>>))))))))))

\* exa_similar.py lines 116-146: the section of result i
SimilarSection(i, item) ==
    IF item.t # "dict" THEN NoGet
    ELSE LET result == item.v
             title == Get(result, "title", PyStr(<<"No title">>))
             url == Get(result, "url", PyStr(<<>>))
             domain == Get(result, "domain", PyStr(<<"Unknown source">>))
             published_date == Get(result, "publishedDate", PyStr(<<>>))
             author == Get(result, "author", PyStr(<<>>))
         IN
         Then(Ok(<<Lit("### "), Val(PyInt(i)), Lit(". ["), Val(title), Lit("]("), Val(url),
                   Lit(")\n\n"), Lit("**Source:** "), Val(domain), Lit("\n")>>),
         Then(When(Truthy(published_date),
                   Ok(<<Lit("**Published:** "), Val(published_date), Lit("\n")>>)),
         Then(When(Truthy(author), Ok(<<Lit("**Author:** "), Val(author), Lit("\n")>>)),
         Then(Score2f("**Similarity Score:** ", result),
         Then(Ok(<<Lit("\n")>>),
         Then(When(Has(result, "text"),
                   Then(Ok(<<Lit("**Content Excerpt:**\n\n"), Lit(Fence), Lit("\n")>>),
                   Then(Excerpt(Get(result, "text", None), SimilarTextBudget, Ellipsis),
                        Ok(<<Lit("\n"), Lit(Fence), Lit("\n\n")>>)))),
              Ok(<<Lit("---\n\n")>>)))))))

\* exa_anwser.py lines 116-138: the section of source i
AnswerSection(i, item) ==
    IF item.t # "dict" THEN NoGet
    ELSE LET source == item.v
             title == Get(source, "title", PyStr(<<"No title">>))
             url == Get(source, "url", PyStr(<<>>))
             author == Get(source, "author", PyStr(<<>>))
             published_date == Get(source, "publishedDate", PyStr(<<>>))
         IN
         Then(Ok(<<Lit("**"), Val(PyInt(i)), Lit(". ["), Val(title), Lit("]("), Val(url),
                   Lit(")**\n\n")>>),
         Then(When(Truthy(author), Ok(<<Lit("Author: "), Val(author), Lit("\n\n")>>)),
         Then(When(Truthy(published_date),
                   Ok(<<Lit("Published: "), Val(published_date), Lit("\n\n")>>)),
         Then(When(Has(source, "text"),
                   Then(Ok(<<Lit(Fence), Lit("\n")>>),
                   Then(Excerpt(Get(source, "text", None), AnswerTextBudget, Ellipsis),
                        Ok(<<Lit("\n"), Lit(Fence), Lit("\n\n")>>)))),
              Ok(<<Lit("---\n\n")>>)))))

\* for i, item in enumerate(items, 1): the sections in the order of the items
RECURSIVE Sections(_, _, _)
Sections(t, items, i) ==
    IF i > Len(items) THEN Ok(<<>>)
    ELSE Then(CASE t = "search" -> SearchSection(i, items[i])
                [] t = "similar" -> SimilarSection(i, items[i])
                [] t = "answer" -> AnswerSection(i, items[i]),
              Sections(t, items, i + 1))

\* exa_search.py lines 168-227 and exa_similar.py lines 102-148
ResultsMarkdown(t, api_response, query) ==
    LET results == Get(api_response.v, "results", PyList(<<>>))
        title == IF t = "search" THEN "## Exa Search Results\n\n"
                 ELSE "## Exa Similar Links Results\n\n"
        label == IF t = "search" THEN "**Query:** " ELSE "**Query URL:** "
        none == IF t = "search" THEN "No results found.\n" ELSE "No similar links found.\n"
    IN  IF api_response.t # "dict" THEN NoGet
        ELSE IF ~HasLen(results) THEN Fail("TypeError", "object has no len()")
        ELSE Then(Ok(<<Lit(title), Lit(label), Val(query), Lit("\n\n"),
                       Lit("**Total Results:** "), Val(PyInt(LenOf(results))), Lit("\n\n")>>),
                  IF ~Truthy(results) THEN Ok(<<Lit(none)>>)
                  ELSE IF results.t # "list" THEN NoGet
                  ELSE Sections(t, results.v, 1))

\* exa_anwser.py lines 100-142
AnswerMarkdown(api_response, query) ==
    LET answer == Get(api_response.v, "answer", PyStr(<<"No answer provided.">>))
        sources == Get(api_response.v, "sources", PyList(<<>>))
    IN  IF api_response.t # "dict" THEN NoGet
        ELSE Then(Ok(<<Lit("## Exa Answer Results\n\n"), Lit("**Query:** "), Val(query),
                       Lit("\n\n"), Lit("### Answer\n\n"), Val(answer), Lit("\n\n")>>),
                  IF ~Truthy(sources) THEN Ok(<<Lit("No sources provided.\n\n")>>)
                  ELSE IF ~HasLen(sources) THEN Fail("TypeError", "object has no len()")
                  ELSE IF sources.t # "list" THEN NoGet
                  ELSE Then(Ok(<<Lit("### Sources ("), Val(PyInt(LenOf(sources))),
                                 Lit(")\n\n")>>),
                            Sections("answer", sources.v, 1)))

\* A dict keyed by arbitrary strings (the contents results keyed by URL) is
\* [t |-> "map", v |-> a sequence of [key, val]], key a character sequence.
PyMap(entries) == [t |-> "map", v |-> entries]
Entry(key, val) == [key |-> key, val |-> val]

\* s in text, for strings
Contains(text, s) ==
    \E i \in 1..(Len(text) + 1) :
        i + Len(s) - 1 <= Len(text) /\ SubSeq(text, i, i + Len(s) - 1) = s

\* `url in results` is defined for these containers
Container(x) == x.t \in {"map", "dict", "list", "str"}
\* url in results
In(url, results) ==
    CASE results.t = "map" -> \E i \in DOMAIN results.v : results.v[i].key = url.v
      [] results.t = "list" -> \E i \in DOMAIN results.v : results.v[i] = url
      [] results.t = "str" -> Contains(results.v, url.v)
      [] OTHER -> FALSE
\* results[url], for a map that holds url
Lookup(results, url) ==
    results.v[CHOOSE i \in DOMAIN results.v :
                 /\ results.v[i].key = url.v
                 /\ \A j \in DOMAIN results.v : results.v[j].key = url.v => j <= i].val

\* exa_contents.py lines 232-238
RECURSIVE LinkLines(_)
LinkLines(links) ==
    IF links = <<>> THEN Ok(<<>>)
    ELSE IF Head(links).t # "dict" THEN NoGet
    ELSE LET link_url == Get(Head(links).v, "url", PyStr(<<>>))
             link_title == Get(Head(links).v, "title", link_url)
         IN  Then(Ok(<<Lit("- ["), Val(link_title), Lit("]("), Val(link_url), Lit(")\n")>>),
                  LinkLines(Tail(links)))

\* exa_contents.py lines 255-269
RECURSIVE Subpages(_)
Subpages(subpages) ==
    IF subpages = <<>> THEN Ok(<<>>)
    ELSE IF Head(subpages).t # "dict" THEN NoGet
    ELSE LET subpage == Head(subpages).v
             subpage_url == Get(subpage, "url", PyStr(<<>>))
             subpage_title == Get(subpage, "title", subpage_url)
         IN
         Then(Ok(<<Lit("#### ["), Val(subpage_title), Lit("]("), Val(subpage_url),
                   Lit(")\n\n")>>),
         Then(When(Has(subpage, "summary"),
                   Ok(<<Lit("**Summary:** "), Val(Get(subpage, "summary", None)),
                        Lit("\n\n")>>)),
         Then(When(Has(subpage, "text"),
                   Then(Ok(<<Lit("**Content Preview:**\n\n"), Lit(Fence), Lit("\n")>>),
                   Then(Excerpt(Get(subpage, "text", None), SubpageTextBudget, Ellipsis),
                        Ok(<<Lit("\n"), Lit(Fence), Lit("\n\n")>>)))),
              Subpages(Tail(subpages)))))

\* exa_contents.py lines 216-271: the section of one requested url
ContentsSection(results, url) ==
    IF ~Container(results) THEN Fail("TypeError", "argument is not iterable")
    ELSE IF ~In(url, results)
    THEN Ok(<<Lit("### URL: "), Val(url), Lit("\n\nNo data available for this URL.\n\n---\n\n")>>)
    ELSE IF results.t # "map" THEN Fail("TypeError", "indices must be integers")
    ELSE LET data == Lookup(results, url)
             url_data == IF data.t = "dict" THEN data.v ELSE EmptyDict
         IN
         IF data.t \notin {"dict", "str", "list"}
         THEN Fail("TypeError", "argument is not iterable")
         ELSE
         Then(Ok(<<Lit("### URL: ["), Val(url), Lit("]("), Val(url), Lit(")\n\n")>>),
         Then(When("title" \in DOMAIN url_data,
                   Ok(<<Lit("**Title:** "), Val(Get(url_data, "title", None)), Lit("\n\n")>>)),
         Then(When(Has(url_data, "summary"),
                   Ok(<<Lit("**Summary:**\n\n"), Val(Get(url_data, "summary", None)),
                        Lit("\n\n")>>)),
         Then(When(Has(url_data, "links"),
                   IF ~Iterable(Get(url_data, "links", None))
                   THEN Fail("TypeError", "object is not iterable")
                   ELSE Then(Ok(<<Lit("**Links:**\n\n")>>),
                        Then(LinkLines(ItemsOf(Get(url_data, "links", None))),
                             Ok(<<Lit("\n")>>)))),
         Then(When(Has(url_data, "text"),
                   IF Get(url_data, "text", None).t # "str"
                   THEN Fail("TypeError", "can only concatenate str")
                   ELSE Then(Ok(<<Lit("**Content:**\n\n"), Lit(Fence), Lit("\n")>>),
                        Then(Excerpt(Get(url_data, "text", None), ContentsTextBudget,
                                     ContentsMarker),
                             Ok(<<Lit("\n"), Lit(Fence), Lit("\n\n")>>)))),
         Then(When(Has(url_data, "subpages"),
                   IF ~Iterable(Get(url_data, "subpages", None))
                   THEN Fail("TypeError", "object is not iterable")
                   ELSE Then(Ok(<<Lit("**Subpages:**\n\n")>>),
                             Subpages(ItemsOf(Get(url_data, "subpages", None))))),
              Ok(<<Lit("---\n\n")>>)))))))

\* for url in urls: the sections in the order of the requested urls
RECURSIVE ContentsSections(_, _)
ContentsSections(results, urls) ==
    IF urls = <<>> THEN Ok(<<>>)
    ELSE Then(ContentsSection(results, Head(urls)), ContentsSections(results, Tail(urls)))

\* exa_contents.py lines 207-273
ContentsMarkdown(api_response, urls) ==
    IF ~Truthy(api_response) THEN Ok(<<Lit("No content data available.")>>)
    ELSE IF api_response.t \in {"int", "bool"} THEN Fail("TypeError", "argument is not iterable")
    ELSE IF api_response.t # "dict" \/ "results" \notin DOMAIN api_response.v
    THEN Ok(<<Lit("No content data available.")>>)
    ELSE Then(Ok(<<Lit("## Exa Content Extraction Results\n\n")>>),
              ContentsSections(api_response.v["results"], urls))

\* _format_results_as_markdown of tool t; context is the query, the url or the urls
FormatResultsAsMarkdown(t, api_response, context) ==
    CASE t \in {"search", "similar"} -> ResultsMarkdown(t, api_response, context)
      [] t = "answer" -> AnswerMarkdown(api_response, context)
      [] t = "contents" -> ContentsMarkdown(api_response, context.v)

\* ------------------------------------------- search: the derived outputs

\* exa_search.py lines 118-119: if url := result.get("url"): urls.append(url)
RECURSIVE ExtractUrls(_)
ExtractUrls(raw_results) ==
    IF raw_results = <<>> THEN <<>>
    ELSE LET url == Get(Head(raw_results).v, "url", None)
         IN  (IF Truthy(url) THEN <<url>> ELSE <<>>) \o ExtractUrls(Tail(raw_results))

\* exa_search.py lines 121-125
RECURSIVE ExtractImages(_)
ExtractImages(raw_results) ==
    IF raw_results = <<>> THEN <<>>
    ELSE LET result == Head(raw_results).v
             image == Get(result, "image", None)
             keep == /\ "image" \in DOMAIN result
                     /\ image.t = "str"
                     /\ Strip(image.v, Whitespace) # <<>>
                     /\ (StartsWith(image.v, Http) \/ StartsWith(image.v, Https))
         IN  (IF keep THEN <<image>> ELSE <<>>) \o ExtractImages(Tail(raw_results))

\* exa_search.py lines 114-125: the two lists, or the exception of the loop
Extract(result_data) ==
    LET raw_results == Get(result_data.v, "results", PyList(<<>>))
        items == IF raw_results.t = "list" THEN raw_results.v ELSE <<>>
    IN  IF result_data.t # "dict" THEN [exc |-> NoGet.exc, urls |-> <<>>, images |-> <<>>]
        ELSE IF ~Truthy(raw_results) /\ HasLen(raw_results)
             THEN [exc |-> NoExc, urls |-> <<>>, images |-> <<>>]
        ELSE IF raw_results.t # "list"
             THEN [exc |-> Exc("TypeError", "object is not iterable"),
                   urls |-> <<>>, images |-> <<>>]
        ELSE IF \E i \in DOMAIN items : items[i].t # "dict"
             THEN [exc |-> NoGet.exc, urls |-> <<>>, images |-> <<>>]
        ELSE [exc |-> NoExc, urls |-> ExtractUrls(items), images |-> ExtractImages(items)]

\* --------------------------------------------------------------- messages

\* create_json_message, create_text_message, create_variable_message
JsonMessage(v) == [kind |-> "json", name |-> "", value |-> v]
TextMessage(parts) == [kind |-> "text", name |-> "", value |-> PyStr(parts)]
VariableMessage(name, v) == [kind |-> "variable", name |-> name, value |-> PyList(v)]

\* str(e), the status code and the body as parts of an error message
StrOf(e) == [k |-> "str(e)", v |-> PyStr(<<e.msg>>)]
StatusPart(status_code) == [k |-> "status", v |-> PyInt(status_code)]
BodyPart(text) == [k |-> "body", v |-> PyStr(<<text>>)]

ApiName(t) ==
    CASE t = "search" -> "Exa Search API"
      [] t = "similar" -> "Exa Find Similar API"
      [] t = "answer" -> "Exa Answer API"
      [] t = "contents" -> "Exa Contents API"

\* the classes of Exception that the model raises
Exceptions ==
    RequestExceptions \cup {"KeyError", "ValueError", "TypeError", "AttributeError"}

\* the except clause that takes an exception of class cls in tool t: "none"
\* when no clause does and the exception leaves the generator
Handler(t, cls) ==
    IF t = "contents" /\ cls = "KeyError" THEN "mock"
    ELSE IF cls \in RequestExceptions THEN "request"
    ELSE IF cls \in Exceptions THEN "generic"
    ELSE "none"

\* the message without the status code and the body of e.response
RequestErrorMessageBare(t, e) ==
    <<Lit("Error when calling "), Lit(ApiName(t)), Lit(": "), StrOf(e)>>
\* error_message of `except requests.RequestException`
RequestErrorMessage(t, e) ==
    <<Lit("Error when calling "), Lit(ApiName(t)), Lit(": "), StrOf(e)>>
    \o (IF e.response.present
        THEN <<Lit(" - Status code: "), StatusPart(e.response.status_code),
               Lit(" - Response: "), BodyPart(e.response.text)>>
        ELSE <<>>)
\* error_message of `except Exception`
GenericErrorMessage(e) == <<Lit("Error: "), StrOf(e)>>

ErrorMessage(t, e) ==
    IF Handler(t, e.cls) = "request" THEN RequestErrorMessage(t, e)
    ELSE GenericErrorMessage(e)

\* {"status": "error", "error": error_message}
ErrorResult(error_message) ==
    PyDict([k \in {"status", "error"} |->
              IF k = "status" THEN PyStr(<<"error">>) ELSE PyStr(error_message)])
MockResult ==
    PyDict([k \in {"status", "message"} |->
              IF k = "status" THEN PyStr(<<"mock">>)
              ELSE PyStr(<<"Using mock data instead of actual API">>)])
MockText == <<Lit("API key not found. This is a mock implementation.")>>

\* the two messages an except clause yields, in order
HandlerMessages(t, e) ==
    IF Handler(t, e.cls) = "mock"
    THEN <<TextMessage(MockText), JsonMessage(MockResult)>>
    ELSE <<JsonMessage(ErrorResult(ErrorMessage(t, e))),
           TextMessage(<<Lit("Error: ")>> \o ErrorMessage(t, e))>>

\* ----------------------------------------------------------------- inputs

\* at most this many optional parameters in one parameter mapping
MaxOptional == 1
\* at most this many items in a result collection of a response
MaxResults == 2

Tools == {"search", "similar", "answer", "contents"}

Key1 == PyStr(<<"k", "1">>)
Key2 == PyStr(<<"k", "2">>)
\* the credential mappings: without the API key, and with either of two keys
CredentialSets ==
    {EmptyDict, [k \in {ApiKeyName} |-> Key1], [k \in {ApiKeyName} |-> Key2]}

S_q == <<"q">>
S_test == <<"t", "e", "s", "t">>
S_url == <<"h", "t", "t", "p", "s", ":", "/", "/", "e", ".", "x">>
S_a == <<"a", ".", "c", "o", "m">>
S_b == <<"b", ".", "c", "o", "m">>
S_c == <<"c", ".", "c", "o", "m">>
S_ha == Https \o S_a
S_hb == Https \o S_b
S_hc == Https \o S_c
\* the example input of the specification: a.com, b.com<full-width semicolon>c.com
S_example == S_a \o <<",", " ">> \o S_b \o <<FullSemi>> \o S_c

PrimaryName(t) ==
    CASE t \in {"search", "answer"} -> "query"
      [] t = "similar" -> "url"
      [] t = "contents" -> "urls"

\* a.com<full-width comma>'b.com';
S_quoted == S_a \o <<FullComma, "'">> \o S_b \o <<"'", ";">>
\* ["a.com"]
S_json_a == <<"[", "\"">> \o S_a \o <<"\"", "]">>
\* [ "https://a.com", " b.com" ]
S_json_ab ==
    <<"[", " ", "\"">> \o S_ha \o <<"\"", ",", " ", "\"", " ">> \o S_b \o <<"\"", " ", "]">>
\* [a.com, b.com]
S_bracketed == <<"[">> \o S_a \o <<",", " ">> \o S_b \o <<"]">>
\* a.com, b.com
S_domains == S_a \o <<",", " ">> \o S_b

\* values of the urls parameter: delimited strings, JSON array strings, lists
UrlsValues ==
    {None, PyStr(<<>>), PyStr(S_a), PyStr(S_ha), PyStr(S_example), PyStr(S_quoted),
     PyStr(<<" ">>), PyStr(<<",", ";", " ">>),
     PyStr(S_json_a), PyStr(S_json_ab), PyStr(<<"[", "]">>), PyStr(<<"[", "1", "]">>),
     PyStr(S_bracketed),
     PyList(<<>>), PyList(<<PyStr(S_a)>>),
     PyList(<<PyStr(S_ha), PyStr(<<" ">> \o S_b \o <<" ">>)>>),
     PyList(<<PyStr(<<>>)>>), PyList(<<PyInt(5)>>), PyInt(7)}

PrimaryValues(t) ==
    CASE t \in {"search", "answer"} -> {None, PyStr(<<>>), PyStr(S_q)}
      [] t = "similar" -> {None, PyStr(<<>>), PyStr(S_url)}
      [] t = "contents" -> UrlsValues

\* the optional parameters a caller may supply, as <<name, value>>
OptionalValues(t) ==
    CASE t = "search" ->
           {<<"search_type", PyStr(<<"auto">>)>>, <<"search_type", PyStr(<<"keyword">>)>>,
            <<"search_type", None>>,
            <<"num_results", PyInt(5)>>, <<"num_results", PyInt(150)>>,
            <<"num_results", None>>,
            <<"include_domains", PyStr(S_domains)>>, <<"include_domains", None>>,
            <<"exclude_domains", PyStr(S_c)>>,
            <<"start_published_date", PyStr(<<"2024-01-01">>)>>,
            <<"end_published_date", None>>,
            <<"use_autoprompt", PyBool(FALSE)>>, <<"use_autoprompt", None>>,
            <<"text_contents", PyBool(FALSE)>>, <<"highlight_results", PyBool(TRUE)>>,
            <<"category", PyStr(<<"news">>)>>, <<"category", None>>,
            <<"includeText", PyStr(<<"x">>)>>, <<"excludeText", None>>}
      [] t = "similar" ->
           {<<"num_results", PyInt(5)>>, <<"num_results", PyInt(100)>>,
            <<"num_results", PyInt(101)>>, <<"num_results", PyInt(150)>>,
            <<"num_results", PyStr(<<"1", "5", "0">>)>>, <<"num_results", None>>,
            <<"text", PyBool(TRUE)>>, <<"text", None>>}
      [] t = "answer" ->
           {<<"text", PyBool(TRUE)>>, <<"text", PyBool(FALSE)>>, <<"text", None>>,
            <<"model", PyStr(<<"exa">>)>>, <<"model", PyStr(<<"exa-pro">>)>>,
            <<"model", None>>}
      [] t = "contents" ->
           {<<"livecrawl", PyStr(<<"always">>)>>, <<"livecrawl", None>>,
            <<"full_page_text", PyBool(TRUE)>>, <<"ai_page_summary", PyBool(TRUE)>>,
            <<"number_of_subpages", PyInt(0)>>, <<"number_of_subpages", PyInt(2)>>,
            <<"number_of_subpages", None>>,
            <<"return_links", PyInt(0)>>, <<"return_links", PyInt(3)>>}

\* the mapping that holds the pairs of a set with distinct names
MappingOf(pairs) ==
    [k \in {pr[1] : pr \in pairs} |-> (CHOOSE pr \in pairs : pr[1] = k)[2]]
DistinctNames(pairs) == \A x, y \in pairs : x[1] = y[1] => x = y

\* the parameter mappings of tool t: the primary parameter absent or given,
\* and at most MaxOptional optional parameters
ParameterSets(t) ==
    LET optional == {o \in SUBSET OptionalValues(t) :
                        Cardinality(o) <= MaxOptional /\ DistinctNames(o)}
        primary == {{}} \cup {{<<PrimaryName(t), v>>} : v \in PrimaryValues(t)}
    IN  {MappingOf(pr \cup o) : pr \in primary, o \in optional}

\* --------------------------------------------------------- the remote API

\* result items of the search and similar endpoints
GoodItem ==
    PyDict([k \in {"title", "url", "image", "score", "text"} |->
        CASE k = "title" -> PyStr(<<"T">>)
          [] k = "url" -> PyStr(S_ha)
          [] k = "image" -> PyStr(S_hb)
          [] k = "score" -> PyInt(1)
          [] k = "text" -> PyStr(<<"x", "y">>)])
\* a score that is not a number
BadScoreItem ==
    PyDict([k \in {"url", "score"} |->
        IF k = "url" THEN PyStr(S_hc) ELSE PyStr(<<"high">>)])
\* an item that is not an object
NotAnObject == PyStr(S_hc)
\* an item whose url and image are not absolute addresses
RelativeItem ==
    PyDict([k \in {"url", "image"} |-> IF k = "url" THEN PyStr(S_a) ELSE PyStr(S_b)])
Items == {GoodItem, BadScoreItem, NotAnObject, RelativeItem}

RECURSIVE SeqsUpTo(_, _)
SeqsUpTo(S, n) ==
    IF n = 0 THEN {<<>>}
    ELSE SeqsUpTo(S, n - 1)
         \cup {Append(q, x) : q \in {r \in SeqsUpTo(S, n - 1) : Len(r) = n - 1}, x \in S}

\* the data of one URL in a contents response
UrlData ==
    PyDict([k \in {"title", "text", "links"} |->
        CASE k = "title" -> PyStr(<<"T">>)
          [] k = "text" -> PyStr(<<"x", "y">>)
          [] k = "links" -> PyList(<<PyDict([j \in {"url"} |-> PyStr(S_hb)])>>)])
\* links that are not objects
BadUrlData == PyDict([k \in {"links"} |-> PyList(<<PyStr(S_hb)>>)])

\* the documents a 2xx body decodes to
Documents(t) ==
    CASE t \in {"search", "similar"} ->
           {PyDict(EmptyDict), PyList(<<>>), PyDict([k \in {"results"} |-> None])}
           \cup {PyDict([k \in {"results"} |-> PyList(l)]) : l \in SeqsUpTo(Items, MaxResults)}
      [] t = "answer" ->
           {PyDict(EmptyDict), PyList(<<>>),
            PyDict([k \in {"answer"} |-> PyStr(<<"A">>)])}
           \cup {PyDict([k \in {"answer", "sources"} |->
                           IF k = "answer" THEN PyStr(<<"A">>) ELSE PyList(l)]) :
                    l \in SeqsUpTo(Items, MaxResults)}
      [] t = "contents" ->
           {PyDict(EmptyDict), PyList(<<>>), PyDict([k \in {"results"} |-> None])}
           \cup {PyDict([k \in {"results"} |-> PyList(l)]) : l \in SeqsUpTo(Items, MaxResults)}
           \cup {PyDict([k \in {"results"} |-> PyMap(m)]) :
                    m \in SeqsUpTo({Entry(S_ha, UrlData), Entry(S_hb, BadUrlData),
                                    Entry(S_hc, None)}, MaxResults)}

\* a response: the status code, response.text, and what response.json() gives
Response(status_code, text, decodes, doc) ==
    [status_code |-> status_code, text |-> text, decodes |-> decodes, doc |-> doc]
NoDoc == None
StatusCodes == {200, 201, 304, 401, 500}
Responses(t) ==
    {Response(c, b, FALSE, NoDoc) : c \in StatusCodes \ {200}, b \in {"", "not json"}}
    \cup {Response(c, "json", TRUE, PyDict(EmptyDict)) : c \in {201, 304}}
    \cup {Response(200, "not json", FALSE, NoDoc)}
    \cup {Response(200, "json", TRUE, d) : d \in Documents(t)}

\* requests.post raises these without a response
TransportErrors == {"ConnectionError", "Timeout"}

\* response.raise_for_status(): HTTPError for a 4xx or 5xx status
RaisesForStatus(r) == 400 <= r.status_code /\ r.status_code < 600
HTTPError(r) ==
    [cls |-> "HTTPError", msg |-> "Client or Server Error for url",
     response |-> HttpResponse(r.status_code, r.text)]
\* response.json() of an undecodable body raises requests' JSONDecodeError, a
\* RequestException, or with older releases of requests a plain ValueError
DecodeErrors == {Exc("JSONDecodeError", "Expecting value"), Exc("ValueError", "Expecting value")}

\* ------------------------------------------------------------------ state

VARIABLES
    caller,          \* "host", or "provider" for _validate_credentials
    tool,            \* the tool invoked
    credentials,     \* self.runtime.credentials
    tool_parameters, \* the parameters of the invocation
    pc,              \* the position of the generator _invoke
    request,         \* the url, payload and headers built for requests.post
    posts,           \* the requests.post calls of this invocation
    response,        \* the response of requests.post
    result_data,     \* response.json()
    derived,         \* the urls and images of the search tool
    exc,             \* the exception in flight
    messages,        \* the messages yielded so far, in order
    validation,      \* the outcome of _validate_credentials
    entries,         \* the entries the caller wrote into a urls string
    shared_credentials \* the class attribute ExaContentsTool._shared_credentials

vars == <<caller, tool, credentials, tool_parameters, pc, request, posts, response,
          result_data, derived, exc, messages, validation, entries, shared_credentials>>

NoResponseYet == Response(0, "", FALSE, NoDoc)
NoDerived == [exc |-> NoExc, urls |-> <<>>, images |-> <<>>]

Init ==
    /\ caller = "host"
    /\ tool = "search"
    /\ credentials = EmptyDict
    /\ tool_parameters = EmptyDict
    /\ pc = "idle"
    /\ request = NoRequest(NoExc)
    /\ posts = 0
    /\ response = NoResponseYet
    /\ result_data = NoDoc
    /\ derived = NoDerived
    /\ exc = NoExc
    /\ messages = <<>>
    /\ validation = "none"
    /\ entries = <<>>
    /\ shared_credentials = EmptyDict

\* a fresh generator: nothing of an earlier invocation is kept
Begin(c, t, creds, params) ==
    /\ caller' = c
    /\ tool' = t
    /\ credentials' = creds
    /\ tool_parameters' = params
    /\ pc' = "try"
    /\ request' = NoRequest(NoExc)
    /\ posts' = 0
    /\ response' = NoResponseYet
    /\ result_data' = NoDoc
    /\ derived' = NoDerived
    /\ exc' = NoExc
    /\ messages' = <<>>

\* the host invokes a tool
Invoke ==
    /\ pc = "idle"
    /\ \E t \in Tools : \E creds \in CredentialSets : \E params \in ParameterSets(t) :
          /\ Begin("host", t, creds, params)
          /\ validation' = "none"
          /\ entries' = <<>>
          /\ UNCHANGED shared_credentials

\* provider/exa.py lines 13-15: the search tool, invoked with the query "test"
ValidateCredentials ==
    /\ pc = "idle"
    /\ \E creds \in CredentialSets :
          /\ Begin("provider", "search", creds, [k \in {"query"} |-> PyStr(S_test)])
          /\ validation' = "running"
          /\ entries' = <<>>
          /\ UNCHANGED shared_credentials

\* the code of _invoke up to requests.post
Normalize ==
    /\ pc = "try"
    /\ LET r == BuildRequest(tool, credentials, tool_parameters)
       IN  /\ request' = r
           /\ exc' = r.exc
           /\ pc' = IF r.exc = NoExc THEN "post" ELSE "except"
    /\ UNCHANGED <<shared_credentials, entries,
                   caller, tool, credentials, tool_parameters, posts, response,
                   result_data, derived, messages, validation>>

\* requests.post: a response, or a transport error
Post ==
    /\ pc = "post"
    /\ posts' = posts + 1
    /\ \/ \E r \in Responses(tool) :
             /\ response' = r
             /\ exc' = exc
             /\ pc' = "status"
       \/ \E cls \in TransportErrors :
             /\ response' = response
             /\ exc' = Exc(cls, "transport error")
             /\ pc' = "except"
    /\ UNCHANGED <<shared_credentials, entries,
                   caller, tool, credentials, tool_parameters, request, result_data,
                   derived, messages, validation>>

\* response.raise_for_status(); result_data = response.json()
Decode ==
    /\ pc = "status"
    /\ \/ /\ RaisesForStatus(response)
          /\ exc' = HTTPError(response)
          /\ pc' = "except"
          /\ result_data' = result_data
       \/ /\ ~RaisesForStatus(response)
          /\ ~response.decodes
          /\ exc' \in DecodeErrors
          /\ pc' = "except"
          /\ result_data' = result_data
       \/ /\ ~RaisesForStatus(response)
          /\ response.decodes
          /\ exc' = exc
          /\ pc' = "yield json"
          /\ result_data' = response.doc
    /\ UNCHANGED <<shared_credentials, entries,
                   caller, tool, credentials, tool_parameters, request, posts, response,
                   derived, messages, validation>>

\* the generator without its first yield
YieldJsonSkipped ==
    /\ pc = "yield json"
    /\ pc' = "format"
    /\ UNCHANGED <<shared_credentials, entries,
                   caller, tool, credentials, tool_parameters, request, posts, response,
                   result_data, derived, exc, messages, validation>>

\* yield self.create_json_message(result_data)
YieldJson ==
    /\ pc = "yield json"
    /\ messages' = Append(messages, JsonMessage(result_data))
    /\ pc' = "format"
    /\ UNCHANGED <<shared_credentials, entries,
                   caller, tool, credentials, tool_parameters, request, posts, response,
                   result_data, derived, exc, validation>>

\* the second argument of _format_results_as_markdown
FormatContext ==
    IF tool = "contents" THEN request.payload["ids"]
    ELSE Get(tool_parameters, PrimaryName(tool), None)

\* markdown = self._format_results_as_markdown(...); yield the text message;
\* the search tool goes on to compute its derived lists
FormatAndYieldText ==
    /\ pc = "format"
    /\ LET f == FormatResultsAsMarkdown(tool, result_data, FormatContext)
           d == Extract(result_data)
       IN  IF f.exc # NoExc
           THEN /\ exc' = f.exc
                /\ pc' = "except"
                /\ UNCHANGED <<messages, derived>>
           ELSE /\ messages' = Append(messages, TextMessage(f.out))
                /\ IF tool # "search"
                   THEN /\ pc' = "done"
                        /\ UNCHANGED <<exc, derived>>
                   ELSE /\ derived' = d
                        /\ exc' = d.exc
                        /\ pc' = IF d.exc = NoExc THEN "yield urls" ELSE "except"
    /\ UNCHANGED <<shared_credentials, entries,
                   caller, tool, credentials, tool_parameters, request, posts, response,
                   result_data, validation>>

\* yield self.create_variable_message("urls", urls)
YieldUrls ==
    /\ pc = "yield urls"
    /\ messages' = Append(messages, VariableMessage("urls", derived.urls))
    /\ pc' = "yield images"
    /\ UNCHANGED <<shared_credentials, entries,
                   caller, tool, credentials, tool_parameters, request, posts, response,
                   result_data, derived, exc, validation>>

\* yield self.create_variable_message("images", images)
YieldImages ==
    /\ pc = "yield images"
    /\ messages' = Append(messages, VariableMessage("images", derived.images))
    /\ pc' = "done"
    /\ UNCHANGED <<shared_credentials, entries,
                   caller, tool, credentials, tool_parameters, request, posts, response,
                   result_data, derived, exc, validation>>

\* an except clause yields its first message; an exception that no clause
\* takes leaves the generator
Except ==
    /\ pc = "except"
    /\ IF Handler(tool, exc.cls) = "none"
       THEN messages' = messages /\ pc' = "escaped"
       ELSE messages' = Append(messages, HandlerMessages(tool, exc)[1]) /\ pc' = "except 2"
    /\ UNCHANGED <<shared_credentials, entries,
                   caller, tool, credentials, tool_parameters, request, posts, response,
                   result_data, derived, exc, validation>>

\* an except clause yields its second message and the generator ends
ExceptSecond ==
    /\ pc = "except 2"
    /\ messages' = Append(messages, HandlerMessages(tool, exc)[2])
    /\ pc' = "done"
    /\ UNCHANGED <<shared_credentials, entries,
                   caller, tool, credentials, tool_parameters, request, posts, response,
                   result_data, derived, exc, validation>>

\* provider/exa.py lines 14-19: the loop over the messages has ended and
\* _validate_credentials returns, or an exception has left the generator and
\* it raises ToolProviderCredentialValidationError
ValidationEnds ==
    /\ pc \in {"done", "escaped"}
    /\ caller = "provider"
    /\ validation = "running"
    /\ validation' = IF pc = "escaped" THEN "invalid" ELSE "accepted"
    /\ UNCHANGED <<shared_credentials, entries,
                   caller, tool, credentials, tool_parameters, pc, request,
                   posts, response, result_data, derived, exc, messages>>

\* the generator is exhausted and dropped: none of its state outlives it; the
\* class attribute is no state of the generator
Return ==
    /\ pc \in {"done", "escaped"}
    /\ caller = "provider" => validation # "running"
    /\ caller' = "host"
    /\ tool' = "search"
    /\ credentials' = EmptyDict
    /\ tool_parameters' = EmptyDict
    /\ pc' = "idle"
    /\ request' = NoRequest(NoExc)
    /\ posts' = 0
    /\ response' = NoResponseYet
    /\ result_data' = NoDoc
    /\ derived' = NoDerived
    /\ exc' = NoExc
    /\ messages' = <<>>
    /\ validation' = "none"
    /\ entries' = <<>>
    /\ UNCHANGED shared_credentials

Next ==
    \/ Invoke
    \/ ValidateCredentials
    \/ Normalize
    \/ Post
    \/ Decode
    \/ YieldJson
    \/ FormatAndYieldText
    \/ YieldUrls
    \/ YieldImages
    \/ Except
    \/ ExceptSecond
    \/ ValidationEnds
    \/ Return

Spec == Init /\ [][Next]_vars

\* ---------------------------------------------------------- the properties

Done == pc = "done"
Success2xx(r) == 200 <= r.status_code /\ r.status_code < 300
\* requests.post has returned a response in this invocation
Responded == posts = 1 /\ response # NoResponseYet
\* the request was built and requests.post reached
RequestBuilt == pc \notin {"idle", "try"} /\ request.exc = NoExc

\* {"status": "error", "error": message}
IsErrorResult(m) ==
    /\ m.kind = "json"
    /\ m.value.t = "dict"
    /\ DOMAIN m.value.v = {"status", "error"}
    /\ m.value.v["status"] = PyStr(<<"error">>)
IsErrorText(m) == m.kind = "text" /\ Head(m.value.v) = Lit("Error: ")
\* the structured error and the text error, carrying the same message
ErrorPair(ms) ==
    /\ Len(ms) = 2
    /\ IsErrorResult(ms[1])
    /\ IsErrorText(ms[2])
    /\ ms[2].value.v = <<Lit("Error: ")>> \o ms[1].value.v["error"].v
\* a structured message that carries the raw ApiResult
IsRawResult(m) == m.kind = "json" /\ m.value = result_data /\ Responded /\ response.decodes
NoRawResult(ms) == \A i \in DOMAIN ms : ~IsRawResult(ms[i])

\* C1: when a step fails after a 2xx response (decoding the body, or building
\* the summary), the finished invocation has emitted the error pair only and
\* no structured message carrying the raw ApiResult.
C1_OnlyErrorPairAfter2xxFailure ==
    (Done /\ Responded /\ Success2xx(response) /\ exc # NoExc)
        => (ErrorPair(messages) /\ NoRawResult(messages))

\* the parts of the text of message m
PartsOf(m) == IF m.kind = "text" THEN Range(m.value.v) ELSE Range(m.value.v["error"].v)
CarriesStatusAndBody(m, r) ==
    StatusPart(r.status_code) \in PartsOf(m) /\ BodyPart(r.text) \in PartsOf(m)

PrimaryMissing ==
    \/ ~Truthy(Get(tool_parameters, PrimaryName(tool), None))
    \/ tool = "contents" /\ NormalizeUrls(tool_parameters).exc.cls = "ValueError"
KeyMissing == ApiKeyName \notin DOMAIN credentials
\* another parameter that the code cannot convert: int() of a null or of a
\* text that is no number, or an entry of the urls that is not a string
NumericNames(t) ==
    CASE t \in {"search", "similar"} -> {"num_results"}
      [] t = "contents" -> {"number_of_subpages", "return_links"}
      [] OTHER -> {}
Unconvertible ==
    \/ \E n \in NumericNames(tool) \cap DOMAIN tool_parameters : ~IntOf(tool_parameters[n]).ok
    \/ tool = "contents" /\ NormalizeUrls(tool_parameters).exc.cls = "AttributeError"

C4_SuccessSequence ==
    (Done /\ Responded /\ Success2xx(response) /\ exc = NoExc)
        => /\ Len(messages) = IF tool = "search" THEN 4 ELSE 2
           /\ messages[1] = JsonMessage(result_data)
           /\ messages[2] =
                TextMessage(FormatResultsAsMarkdown(tool, result_data, FormatContext).out)
           /\ tool = "search" =>
                /\ messages[3].kind = "variable" /\ messages[3].name = "urls"
                /\ messages[4].kind = "variable" /\ messages[4].name = "images"
           /\ \A i \in DOMAIN messages : ~IsErrorResult(messages[i]) /\ ~IsErrorText(messages[i])
C4_Witness ==
    /\ Done /\ tool = "search" /\ Success2xx(response) /\ exc = NoExc
    /\ Len(messages) = 4 /\ messages[3].value.v # <<>>

\* C5: without the API key in the credentials, the invocation makes no HTTP
\* call and ends with the error pair, as for any other failure; no exception
\* leaves it.
C5_MissingKeyGivesErrorPair ==
    /\ pc # "escaped"
    /\ (Done /\ KeyMissing) => (posts = 0 /\ ErrorPair(messages))

\* C6: credential validation runs one search with the query "test"; it
\* reports the credentials invalid exactly when that search fails, and accepts
\* them only when it succeeds.
C6_ValidationFollowsSearch ==
    /\ caller = "provider" =>
         (tool = "search" /\ tool_parameters = [k \in {"query"} |-> PyStr(S_test)])
    /\ (caller = "provider" /\ validation \in {"accepted", "invalid"}) =>
         (validation = "accepted" <=> (exc = NoExc /\ Responded /\ Success2xx(response)))

\* a null at any level of a payload value (two levels of nesting at most)
HasNull(v) ==
    \/ v = None
    \/ v.t = "list" /\ \E i \in DOMAIN v.v : v.v[i] = None
    \/ v.t = "dict" /\ \E k \in DOMAIN v.v : v.v[k] = None

\* C7: the payload sent holds no null at any level.
C7_NoNullInPayload ==
    RequestBuilt => \A k \in DOMAIN request.payload : ~HasNull(request.payload[k])

\* the ids of the contents payload
Ids == request.payload["ids"].v
HasScheme(u) == StartsWith(u, Http) \/ StartsWith(u, Https)

\* C8: whatever the form of the urls (list, JSON array string, delimited
\* string), every element of 'ids' is trimmed and starts with a scheme.
C8_IdsTrimmedWithScheme ==
    (RequestBuilt /\ tool = "contents")
        => \A i \in DOMAIN Ids : Ids[i].v = Strip(Ids[i].v, Whitespace) /\ HasScheme(Ids[i].v)

\* C9: the example input gives exactly the three https URLs.
C9_ExampleNormalized ==
    (RequestBuilt /\ tool = "contents"
       /\ Get(tool_parameters, "urls", None) = PyStr(S_example))
        => Ids = <<PyStr(S_ha), PyStr(S_hb), PyStr(S_hc)>>

\* the result count of the payload sent
NumResults == request.payload["numResults"].v
Supplied(name) == name \in DOMAIN tool_parameters

\* C11: the similar tool sends numResults 10 when num_results is not supplied,
\* the supplied number when it is at most 100, and 100 when it is above 100.
C11_SimilarNumResultsClamped ==
    (RequestBuilt /\ tool = "similar") =>
        IF ~Supplied("num_results") THEN NumResults = 10
        ELSE LET n == IntOf(tool_parameters["num_results"]).v
             IN  IF n <= 100 THEN NumResults = n ELSE NumResults = 100
C11_Witness ==
    /\ RequestBuilt /\ tool = "similar"
    /\ Get(tool_parameters, "num_results", None) = PyInt(150)
    /\ NumResults = 100

\* C12: the search tool sends numResults 10 when num_results is not supplied,
\* and never sends more than 100.
C12_SearchNumResultsCapped ==
    (RequestBuilt /\ tool = "search") =>
        /\ ~Supplied("num_results") => NumResults = 10
        /\ NumResults <= 100

WellFormed(x) == x.t = "str" /\ HasScheme(x.v)
\* the field `name` of the API's results, in their order, where well-formed
WellFormedInOrder(name) ==
    LET results == Get(result_data.v, "results", PyList(<<>>)).v
    IN  SelectSeq([i \in DOMAIN results |-> Get(results[i].v, name, None)], WellFormed)
\* the search tool has yielded its four messages
SearchDone == Done /\ tool = "search" /\ exc = NoExc /\ Len(messages) = 4

\* C14: the 'urls' and 'images' outputs of the search tool hold, in the order
\* of the API's results, the well-formed absolute addresses of the results and
\* nothing else.
C14_DerivedListsWellFormedInOrder ==
    SearchDone =>
        /\ messages[3].value.v = WellFormedInOrder("url")
        /\ messages[4].value.v = WellFormedInOrder("image")

\* the invocation has ended with its summary yielded
Succeeded == Done /\ exc = NoExc /\ Len(messages) >= 2
\* the parts of the summary
Summary == messages[2].value.v
\* the collection of items in the ApiResult of a tool
Collection == Get(result_data.v, IF tool = "answer" THEN "sources" ELSE "results", None)
\* the ApiResult holds its collection of items, and the collection is empty
ZeroItems == result_data.t = "dict" /\ Collection.t \in {"list", "map"} /\ Collection.v = <<>>
\* the sentence by which a tool says that there is nothing to show
NoResultsSentence(t) ==
    CASE t = "search" -> "No results found.\n"
      [] t = "similar" -> "No similar links found.\n"
      [] t = "answer" -> "No sources provided.\n\n"
      [] t = "contents" -> "No content data available."
\* the literal text that opens an item section: a numbered heading, or the
\* heading of a URL
SectionHeadings == {Lit("### "), Lit("**"), Lit("### URL: "), Lit("### URL: [")}

\* C16: for an ApiResult with zero items the summary of every tool holds the
\* tool's 'no results' sentence and no item section.
C16_ZeroItemsNoSections ==
    (Succeeded /\ ZeroItems) =>
        /\ Lit(NoResultsSentence(tool)) \in Range(Summary)
        /\ Range(Summary) \cap SectionHeadings = {}

\* ------------------------------------------- texts around their budgets

\* the texts of a response are up to this many characters over their budget
MaxOver == 2

\* the budget and the marker of the text of an item, by tool
Budget(t) ==
    CASE t = "search" -> SearchTextBudget
      [] t = "similar" -> SimilarTextBudget
      [] t = "answer" -> AnswerTextBudget
      [] t = "contents" -> ContentsTextBudget
Marker(t) == IF t = "contents" THEN ContentsMarker ELSE Ellipsis

\* the lengths of text around a budget
Lengths(budget) == {0, 1} \cup ((budget - 1)..(budget + MaxOver))
\* a text of n characters that begins with c; its characters vary by position
TextOf(c, n) == [i \in 1..n |-> IF i = 1 THEN c ELSE DigitChars[(i % 10) + 1]]
TextItem(c, n) ==
    PyDict([k \in {"url", "text"} |-> IF k = "url" THEN PyStr(S_ha) ELSE PyStr(TextOf(c, n))])
\* a response with one item, whose text has n characters; for the contents
\* tool the item has one subpage, whose text has m characters
TextDocument(t, n, m) ==
    CASE t \in {"search", "similar"} ->
           PyDict([k \in {"results"} |-> PyList(<<TextItem("r", n)>>)])
      [] t = "answer" ->
           PyDict([k \in {"answer", "sources"} |->
                     IF k = "answer" THEN PyStr(<<"A">>) ELSE PyList(<<TextItem("r", n)>>)])
      [] t = "contents" ->
           PyDict([k \in {"results"} |->
              PyMap(<<Entry(S_ha,
                  PyDict([j \in {"text", "subpages"} |->
                     IF j = "text" THEN PyStr(TextOf("p", n))
                     ELSE PyList(<<TextItem("s", m)>>)]))>>)])

\* a tool is invoked for one item: the query, or the url of the item
InvokeForText ==
    /\ pc = "idle"
    /\ \E t \in Tools :
          Begin("host", t, [k \in {ApiKeyName} |-> Key1],
                [k \in {PrimaryName(t)} |->
                    IF t \in {"search", "answer"} THEN PyStr(S_q) ELSE PyStr(S_ha)])
    /\ validation' = "none"
    /\ entries' = <<>>
    /\ UNCHANGED shared_credentials

\* requests.post: the remote API answers 200 with texts around their budgets
PostText ==
    /\ pc = "post"
    /\ posts' = posts + 1
    /\ \E n \in Lengths(Budget(tool)) :
         \E m \in IF tool = "contents" THEN Lengths(SubpageTextBudget) ELSE {0} :
            response' = Response(200, "json", TRUE, TextDocument(tool, n, m))
    /\ pc' = "status"
    /\ UNCHANGED <<shared_credentials, entries, caller, tool, credentials, tool_parameters,
                   request, result_data, derived, exc, messages, validation>>

NextExcerpt ==
    \/ InvokeForText
    \/ Normalize
    \/ PostText
    \/ Decode
    \/ YieldJson
    \/ FormatAndYieldText
    \/ YieldUrls
    \/ YieldImages
    \/ Return

\* the four tools on responses whose texts are around their budgets
SpecExcerpt == Init /\ [][NextExcerpt]_vars

\* the text of the item of the response, and of the subpage of the contents tool
ItemText ==
    IF tool = "contents" THEN result_data.v["results"].v[1].val.v["text"].v
    ELSE Collection.v[1].v["text"].v
SubpageText == result_data.v["results"].v[1].val.v["subpages"].v[1].v["text"].v
\* the renderings in the summary of the text that begins with c
Renderings(c) ==
    {part.v.v : part \in {x \in Range(Summary) :
                   x.k = "val" /\ x.v.t = "str" /\ x.v.v # <<>> /\ Head(x.v.v) = c}}
\* text is rendered once: cut to its budget and marked when longer, unchanged
\* otherwise; an empty text is not rendered
RenderedWithin(text, c, budget, marker) ==
    IF text = <<>> THEN Renderings(c) = {}
    ELSE /\ Cardinality(Renderings(c)) = 1
         /\ \A r \in Renderings(c) :
              IF Len(text) > budget
              THEN /\ Len(r) = budget + Len(marker)
                   /\ SubSeq(r, 1, budget) = SubSeq(text, 1, budget)
                   /\ SubSeq(r, budget + 1, Len(r)) = marker
              ELSE r = text

\* C17: a text longer than its budget (answer 300; search, similar 500;
\* contents 1000, its subpages 500) is rendered as its first budget characters
\* and the marker; a text within the budget is rendered unchanged.
C17_TextCutAtBudget ==
    Succeeded =>
        /\ tool = "answer" => RenderedWithin(ItemText, "r", 300, <<".", ".", ".">>)
        /\ tool \in {"search", "similar"} =>
              RenderedWithin(ItemText, "r", 500, <<".", ".", ".">>)
        /\ tool = "contents" =>
              /\ RenderedWithin(ItemText, "p", 1000, ContentsMarker)
              /\ RenderedWithin(SubpageText, "s", 500, <<".", ".", ".">>)
C17_Witness ==
    /\ Succeeded /\ tool = "contents"
    /\ Len(ItemText) = 1001 /\ Len(SubpageText) = 500
    /\ Cardinality(Renderings("p")) = 1 /\ Cardinality(Renderings("s")) = 1

\* the positions of the summary at which an item section opens, in order
SectionPositions ==
    SelectSeq([p \in DOMAIN Summary |-> p], LAMBDA p : Summary[p] \in SectionHeadings)
\* the address that the section opening at position p shows: for the contents
\* tool it follows the heading, for the others the number and the title
SectionUrl(p) == IF tool = "contents" THEN Summary[p + 1].v ELSE Summary[p + 5].v
\* the address of item i of the API's collection
ItemUrl(i) ==
    LET item == Collection.v[i]
    IN  IF Collection.t = "map" THEN PyStr(item.key)
        ELSE IF item.t = "dict" THEN Get(item.v, "url", PyStr(<<>>))
        ELSE item

\* C18: the item sections of the summary are the items of the API's
\* collection in the order returned: section i is of item i, none left out,
\* none added.
C18_SectionsInApiOrder ==
    (Succeeded /\ result_data.t = "dict" /\ Collection.t \in {"list", "map"}) =>
        /\ Len(SectionPositions) = Len(Collection.v)
        /\ \A i \in DOMAIN SectionPositions : SectionUrl(SectionPositions[i]) = ItemUrl(i)

\* ------------------------------ the contents tool and its class attribute

\* exa_contents.py lines 16-25: from_credentials, called for any instance at
\* any moment, stores the credentials it is given in the class attribute
FromCredentials ==
    /\ \E creds \in CredentialSets : shared_credentials' = creds
    /\ UNCHANGED <<entries, caller, tool, credentials, tool_parameters, pc, request, posts,
                   response, result_data, derived, exc, messages, validation>>

\* an instance of the contents tool is invoked with the credentials of its runtime
InvokeContents ==
    /\ pc = "idle"
    /\ \E creds \in CredentialSets : \E params \in ParameterSets("contents") :
          /\ Begin("host", "contents", creds, params)
          /\ validation' = "none"
          /\ entries' = <<>>
          /\ UNCHANGED shared_credentials

NextShared ==
    \/ FromCredentials
    \/ InvokeContents
    \/ Normalize
    \/ Post
    \/ Decode
    \/ YieldJson
    \/ FormatAndYieldText
    \/ Except
    \/ ExceptSecond
    \/ Return

\* instances of the contents tool created and invoked in any interleaving
SpecShared == Init /\ [][NextShared]_vars

\* C15: no state at class scope is written when an instance is created or
\* invoked, so nothing written for one instance is shared with another, and a
\* request carries the API key of the runtime of its own invocation.
C15_NoSharedState ==
    /\ shared_credentials = EmptyDict
    /\ RequestBuilt => request.headers["x-api-key"] = credentials["exa_api_key"]

\* --------------------------------------- the contents tool on urls strings

\* at most this many entries in a composed urls string
MaxEntries == 2

S_v6 == <<"[", ":", ":", "1", "]">>
\* the entries a caller writes: with and without a scheme, and IPv6 literals
UrlEntries == {S_a, S_hb, Http \o S_c, S_v6, Http \o S_v6}
\* the separators between two entries: single, repeated and mixed
Separators == {<<",">>, <<",", " ">>, <<FullComma>>, <<";">>, <<" ", "\n">>}
Quotes == {<<>>, <<"'">>, <<"\"">>}
Leading == {<<>>, <<",">>}
Trailing == {<<>>, <<";">>, <<" ">>}

\* the entries es, each between the quotes q, joined by the separators seps
RECURSIVE Join(_, _, _)
Join(es, seps, q) ==
    IF es = <<>> THEN <<>>
    ELSE q \o Head(es) \o q
         \o (IF Len(es) = 1 THEN <<>> ELSE Head(seps) \o Join(Tail(es), Tail(seps), q))

\* the caller composes a urls string and invokes the contents tool with it
InvokeWithUrlsString ==
    /\ pc = "idle"
    /\ \E es \in SeqsUpTo(UrlEntries, MaxEntries) :
        \E seps \in {q \in SeqsUpTo(Separators, MaxEntries) : Len(q) + 1 = Len(es) \/ q = es} :
          \E q \in Quotes : \E lead \in Leading : \E trail \in Trailing :
            /\ Begin("host", "contents", [k \in {ApiKeyName} |-> Key1],
                     [k \in {"urls"} |-> PyStr(lead \o Join(es, seps, q) \o trail)])
            /\ validation' = "none"
            /\ entries' = es
            /\ UNCHANGED shared_credentials

NextParse ==
    \/ InvokeWithUrlsString
    \/ Normalize
    \/ Except
    \/ ExceptSecond
    \/ Return

\* the contents tool up to its request, on composed urls strings
SpecParse == Init /\ [][NextParse]_vars

\* what the entries es are to become: in order, https:// before each entry
\* that has no scheme
Expected(es) == [i \in DOMAIN es |-> PyStr(IF HasScheme(es[i]) THEN es[i] ELSE Https \o es[i])]
Normalized == pc \notin {"idle", "try"}
UrlsString == tool_parameters["urls"].v

\* C10 as stated: any entries joined by any mixture of the separators come
\* back in order, unquoted, each with a scheme; with no entry the invocation
\* fails with a validation error.
C10_ParserReturnsEntries ==
    Normalized =>
        IF entries = <<>> THEN request.exc.cls = "ValueError"
        ELSE request.exc = NoExc /\ Ids = Expected(entries)

\* C10 amended: the same, for a urls string that, trimmed, neither begins with
\* '[' nor ends with ']' (the parser drops one such bracket at either end
\* before it splits).
C10_ParserReturnsEntriesUnbracketed ==
    (/\ Normalized
     /\ ~StartsWith(Strip(UrlsString, Whitespace), <<"[">>)
     /\ ~EndsWith(Strip(UrlsString, Whitespace), <<"]">>))
        => IF entries = <<>>
           THEN request.exc.cls = "ValueError" /\ (Done => ErrorPair(messages))
           ELSE request.exc = NoExc /\ Ids = Expected(entries)
C10_Witness ==
    /\ Normalized
    /\ entries = <<S_a, Http \o S_c>>
    /\ UrlsString = <<",", "'">> \o S_a \o <<"'", FullComma, "'">> \o Http \o S_c \o <<"'", ";">>
    /\ Ids = <<PyStr(S_ha), PyStr(Http \o S_c)>>

====
